---- MODULE Spec2Model ----
(***************************************************************************)
(* Model of RecordingController (src/audio_recorder.py): the controller    *)
(* thread that serves the command queue, the capture threads it spawns,    *)
(* the capture queues and the final drain / mix / emit.                    *)
(*                                                                         *)
(* Gains are fixed-point hundredths (1.0 = 100).  A captured block is a    *)
(* record [n, g]: n numbers the blocks in the order the hardware           *)
(* delivered them, g is the gain the block was scaled with.                *)
(*                                                                         *)
(* threads is the bag of thread objects that are alive or still referenced *)
(* by self.loop_thread / self.mic_thread (field ref); a finished thread    *)
(* that nothing references is dropped.  mic_stream / spk_stream are TRUE   *)
(* while the handle names an open stream and FALSE when it is None; a      *)
(* thread inside a blocking read records in field on whether the stream it *)
(* reads is the one the handle names ("cur"), an open stream whose handle  *)
(* was overwritten ("old") or a stream closed in the meantime ("closed").  *)
(* A read that has returned leaves the thread holding its block (pc "got", *)
(* field blk) until the thread has recorded it.                            *)
(* emitted holds the status_queue.put calls of the last step, in order.    *)
(* command_queue is a FIFO the caller fills at will: the controller's      *)
(* get() may return any command next, with any arguments.                  *)
(*                                                                         *)
(* Spec follows the controller and its threads and carries no sample       *)
(* values; NumSpec follows the arithmetic on the samples of one block and  *)
(* of one pair of signals (conversion, gain, peak, mix, limiter).          *)
(* RawSessionSpec is Spec taken up from a raw dump session that has just   *)
(* started.  FnSpec follows one call of a helper function (format          *)
(* negotiation, loopback matching, channel matching, resampling, the rate  *)
(* of the output file).  MeterSpec follows the LEVEL metering of the       *)
(* readers against a clock.  SoundcardSpec follows process_audio of the    *)
(* soundcard variant (src/audio_recorder.bak0.py) on one pair of signals.  *)
(* AppSpec joins the controller and its threads to AudioRecorderApp: the   *)
(* commands are the ones the buttons and sliders put, and the events go    *)
(* through status_queue to process_status and its poll timer.              *)
(***************************************************************************)
EXTENDS Integers, Sequences, FiniteSets, Bags, TLC

\* ---------------------------------------------------------------- bounds
MaxCmds == 3        \* commands the caller sends in one run
MaxBlocks == 2      \* blocks the hardware delivers in one run

\* ------------------------------------------------------ program constants
TARGET_SR == 48000
BLOCK == 1024
GAIN_MIN == 0
GAIN_MAX == 300
GAIN_DEFAULT == 100

\* a key missing from the arguments of SET_GAINS
Absent == 9999

\* the formats the two devices of the environment negotiate
MicRate == 44100
LoopRate == 48000

\* the gain values a caller may send (below, inside and above the slider
\* range), as (mic_gain, loop_gain)
StartGains == {<<100, 400>>}
SetGainsInputs == {<<-100, Absent>>, <<Absent, 400>>}

VARIABLES
    ctl,                \* controller thread: "get", "join", "join_exit",
                        \* "exited", "crashed"
    is_recording,
    include_mic,
    raw_dump,
    p,                  \* TRUE iff a PyAudio instance is held
    mic_stream,         \* TRUE iff the handle names an (open) stream
    spk_stream,
    threads,            \* bag of thread objects [kind, pc, on, blk, ref]
    mic_queue,
    loop_queue,
    capture_sr_mic,
    capture_sr_spk,
    mic_gain,
    loop_gain,
    raw_wave,           \* TRUE iff a raw WAV file object is held open
    raw_frames_written,
    raw_file,           \* block numbers written to the raw WAV opened last
    emitted,            \* events put on status_queue by the last step
    delivered,          \* blocks the hardware delivered so far
    ncmd,               \* commands taken so far
    data,               \* int16 samples of one block as stream.read gives it
    x,                  \* that block as recorded (queued or written)
    level,              \* the LEVEL event put for that block
    mic_rs,             \* resampled mic signal entering the mix
    loop_rs,            \* resampled loopback signal entering the mix
    mixed,              \* the samples _process_and_emit hands to to_int16
    mixed_i16,          \* the int16 samples of the SAVE_FILE event
    call,               \* a helper function being called, with its arguments
    ret,                \* <<value>> once that call has returned
    now,                \* time.time(), in ticks of 0.05 s
    readers,            \* per reader thread started: its tag, its local
                        \* variable last, and whether it still runs
    level_at,           \* per tag, the time of the latest LEVEL event
    mic_np,             \* soundcard variant: the mic signal as drained
    loopback_np,        \* soundcard variant: the loopback signal as drained
    mixed_bak0,         \* soundcard variant: mixed, as handed to the
                        \* int16 conversion
    limiters,           \* soundcard variant: the limiter policies applied
    command_queue,      \* commands the GUI has put and run has not taken
    status_queue,       \* events put and not yet got by process_status
    start_btn,          \* TRUE iff the Start button is enabled (with it the
                        \* Refresh and Browse buttons)
    stop_btn,           \* TRUE iff the Stop button is enabled
    status_label,       \* text of the status line
    poll_after_id,      \* TRUE iff self._poll_after_id is not None
    timers,             \* process_status callbacks scheduled with
                        \* root.after and neither run nor cancelled
    stack               \* GUI thread: the callbacks under way, innermost
                        \* last, as frames [fn, n, pc]

vars == <<ctl, is_recording, include_mic, raw_dump, p,
          mic_stream, spk_stream, threads, mic_queue, loop_queue,
          capture_sr_mic, capture_sr_spk, mic_gain, loop_gain, raw_wave,
          raw_frames_written, raw_file, emitted, delivered, ncmd,
          data, x, level, mic_rs, loop_rs, mixed, mixed_i16,
          call, ret, now, readers, level_at,
          mic_np, loopback_np, mixed_bak0, limiters,
          command_queue, status_queue, start_btn, stop_btn, status_label,
          poll_after_id, timers, stack>>

\* the variables of the sample arithmetic: one block on its way through a
\* reader, one pair of signals on its way through the mix
numVars == <<data, x, level, mic_rs, loop_rs, mixed, mixed_i16>>

\* one call of a helper function
fnVars == <<call, ret>>

\* the clock and what the metering of the readers keeps
meterVars == <<now, readers, level_at>>

\* process_audio of the soundcard variant (src/audio_recorder.bak0.py)
bakVars == <<mic_np, loopback_np, mixed_bak0, limiters>>

\* AudioRecorderApp and the two queues between it and the controller
guiVars == <<command_queue, status_queue, start_btn, stop_btn, status_label,
             poll_after_id, timers, stack>>

\* the variables outside src/audio_recorder.py's controller
extraVars == <<bakVars, guiVars>>

\* what the controller and its threads, taken without sample values, helper
\* calls and clock, leave alone
sideVars == <<numVars, fnVars, meterVars, extraVars>>

\* what a step of a reader thread leaves alone, besides threads
ctlVars == <<ctl, is_recording, include_mic, raw_dump, p,
             mic_stream, spk_stream, capture_sr_mic, capture_sr_spk,
             mic_gain, loop_gain, raw_wave, ncmd>>

\* ------------------------------------------------------------- helpers
NoData == [frames |-> 0, mic |-> <<>>, loop |-> <<>>]

Ev(t, txt) == [type |-> t, text |-> txt, data |-> NoData]

SaveFile(d) == [type |-> "SAVE_FILE", text |-> "", data |-> d]

Min(a, b) == IF a <= b THEN a ELSE b

Max(a, b) == IF a >= b THEN a ELSE b

RECURSIVE gcd(_, _)
gcd(a, b) == IF b = 0 THEN a ELSE gcd(b, a % b)

\* length of resample_to's result for n input frames
ResampleLen(n, src_sr, dst_sr) ==
    IF src_sr = dst_sr \/ n = 0 THEN n
    ELSE LET g == gcd(src_sr, dst_sr)
             up == dst_sr \div g
             down == src_sr \div g
         IN  (n * up) \div down + (IF (n * up) % down = 0 THEN 0 ELSE 1)

Clamp(g) == Max(GAIN_MIN, Min(GAIN_MAX, g))

Frames(blocks) == Len(blocks) * BLOCK

\* arguments of a command: devices are present (TRUE) or None (FALSE)
NoArgs == [mic |-> FALSE, spk |-> FALSE, lb |-> FALSE, inc |-> FALSE,
           raw |-> FALSE, mg |-> Absent, lg |-> Absent]

AllArgs == {[mic |-> m, spk |-> s, lb |-> l, inc |-> i, raw |-> r,
             mg |-> g[1], lg |-> g[2]] :
                m \in BOOLEAN, s \in BOOLEAN, l \in BOOLEAN,
                i \in BOOLEAN, r \in BOOLEAN, g \in StartGains}

\* the arguments of START: a device that start_recording never looks at (a
\* mic without include_mic, a speaker next to an explicit loopback device)
\* is left out
StartArgs == {a \in AllArgs : (a.mic => a.inc) /\ (a.spk => ~a.lb)}

GainArgs == {[NoArgs EXCEPT !.mg = g[1], !.lg = g[2]] : g \in SetGainsInputs}

\* ------------------------------------------------------ thread objects
NewThread(k) == [kind |-> k, pc |-> "loop", on |-> "cur", blk |-> 0,
                 ref |-> TRUE]

One(t) == SetToBag({t})

\* a finished thread keeps no locals; unreferenced, it is dropped
Kept(t) == IF t.pc # "done" THEN One(t)
           ELSE IF t.ref THEN One([t EXCEPT !.on = "cur", !.blk = 0])
           ELSE EmptyBag

\* the bag B with one copy of t replaced by t2
Replace(B, t, t2) == (B (-) One(t)) (+) Kept(t2)

RECURSIVE MapBag(_, _)
\* the bag of F(t) for the threads t of bag B; F is a function on records
MapBag(F, B) ==
    IF B = EmptyBag THEN EmptyBag
    ELSE LET t == CHOOSE u \in BagToSet(B) : TRUE
         IN  Kept(F[t]) (+) MapBag(F, B (-) One(t))

Alive(B) == BagCardinality(B) -
            (IF B = EmptyBag THEN 0
             ELSE BagCardinality([t \in {u \in BagToSet(B) : u.pc = "done"} |-> B[t]]))

\* no LEVEL event put yet / no mix made yet
NoLevel == [tag |-> "none", peak |-> 0]
NotMixed == <<>>

\* no helper call under way
NoCall == [fn |-> "none"]

\* no LEVEL event of that tag yet
Never == -1

\* no block and no mix under way
NumIdle ==
    /\ data = <<>>
    /\ x = <<>>
    /\ level = NoLevel
    /\ mic_rs = <<>>
    /\ loop_rs = <<>>
    /\ mixed = NotMixed
    /\ mixed_i16 = <<>>

FnIdle ==
    /\ call = NoCall
    /\ ret = <<>>

\* the clock stands and no reader has run
MeterIdle ==
    /\ now = 0
    /\ readers = <<>>
    /\ level_at = [mic |-> Never, sys |-> Never]

\* process_audio of the soundcard variant has nothing to work on
BakIdle ==
    /\ mic_np = <<>>
    /\ loopback_np = <<>>
    /\ mixed_bak0 = NotMixed
    /\ limiters = {}

\* no GUI is attached: the widgets as they are built, no poll scheduled
GuiIdle ==
    /\ command_queue = <<>>
    /\ status_queue = <<>>
    /\ start_btn = TRUE
    /\ stop_btn = FALSE
    /\ status_label = "Ready to record"
    /\ poll_after_id = FALSE
    /\ timers = 0
    /\ stack = <<>>

ExtraIdle == BakIdle /\ GuiIdle

\* the controller as __init__ leaves it, apart from the mode and the gains
Constructed ==
    /\ ctl = "get"
    /\ is_recording = FALSE
    /\ include_mic = TRUE
    /\ p = FALSE
    /\ mic_stream = FALSE
    /\ spk_stream = FALSE
    /\ threads = EmptyBag
    /\ mic_queue = <<>>
    /\ loop_queue = <<>>
    /\ capture_sr_mic = TARGET_SR
    /\ capture_sr_spk = TARGET_SR
    /\ raw_wave = FALSE
    /\ raw_frames_written = 0
    /\ raw_file = <<>>
    /\ emitted = <<>>
    /\ delivered = 0
    /\ ncmd = 0

Init ==
    /\ Constructed
    /\ raw_dump = FALSE
    /\ mic_gain = GAIN_DEFAULT
    /\ loop_gain = GAIN_DEFAULT
    /\ NumIdle
    /\ FnIdle
    /\ MeterIdle
    /\ ExtraIdle

\* ------------------------------------------------------------- run
\* variant for C13: a command is taken whatever the controller is doing
TakeAnytime == ncmd < MaxCmds /\ ncmd' = ncmd + 1

\* command_queue.get() returns: the controller is between two commands
Take == ctl = "get" /\ ncmd < MaxCmds /\ ncmd' = ncmd + 1

\* every stream is closed: a read in flight is now on a closed stream
CloseAll(B) ==
    MapBag([t \in BagToSet(B) |->
               IF t.pc = "reading" THEN [t EXCEPT !.on = "closed"] ELSE t], B)

\* _teardown: both handles closed and cleared, PyAudio terminated (which
\* closes every stream still open on it)
Teardown ==
    /\ threads' = CloseAll(threads)
    /\ mic_stream' = FALSE
    /\ spk_stream' = FALSE
    /\ p' = FALSE

\* ------------------------------------------------- start_recording
\* variant for C8: a validation that lets every configuration pass
NoDeviceUnchecked(a) == FALSE

\* line 314: neither a speaker nor a loopback device
NoDevice(a) == ~a.spk /\ ~a.lb

\* line 318: the mic is requested and no mic device is given
NoMic(a) == a.inc /\ ~a.mic

\* line 323: the mic is forced off in raw mode
WithMic(a) == a.inc /\ ~a.raw

\* lines 323-326: the flags and the gains are taken from the arguments
TakeConfig(a) ==
    /\ include_mic' = WithMic(a)
    /\ raw_dump' = a.raw
    /\ mic_gain' = a.mg
    /\ loop_gain' = a.lg

\* self.spk_stream (and, with mic, self.mic_stream) is assigned a new
\* stream: a read in flight on the stream named before goes on on it
Reopened(B, mic) ==
    MapBag([t \in BagToSet(B) |->
               IF t.pc \in {"reading", "got"} /\ t.on = "cur"
                  /\ (t.kind = "loop" \/ mic)
               THEN [t EXCEPT !.on = "old"] ELSE t], B)

\* lines 381-387: self.loop_thread and self.mic_thread are assigned; the
\* threads they named are no longer referenced
Launched(B, mic) ==
    MapBag([t \in BagToSet(B) |-> [t EXCEPT !.ref = FALSE]], B)
    (+) One(NewThread("loop"))
    (+) (IF mic THEN One(NewThread("mic")) ELSE EmptyBag)

StartNoDevice(a) ==
        /\ Take
        /\ NoDevice(a)
        /\ p' = TRUE
        /\ emitted' = << Ev("ERROR", "Select an output or a loopback device."),
                         Ev("STATUS", "Ready to record") >>
        /\ UNCHANGED <<ctl, is_recording, include_mic, raw_dump, mic_stream,
                       spk_stream, threads, mic_queue, loop_queue,
                       capture_sr_mic, capture_sr_spk, mic_gain, loop_gain,
                       raw_wave, raw_frames_written, raw_file, delivered>>

StartNoMic(a) ==
        /\ Take
        /\ ~NoDevice(a)
        /\ NoMic(a)
        /\ p' = TRUE
        /\ emitted' = << Ev("ERROR", "Include microphone is enabled but no mic selected."),
                         Ev("STATUS", "Ready to record") >>
        /\ UNCHANGED <<ctl, is_recording, include_mic, raw_dump, mic_stream,
                       spk_stream, threads, mic_queue, loop_queue,
                       capture_sr_mic, capture_sr_spk, mic_gain, loop_gain,
                       raw_wave, raw_frames_written, raw_file, delivered>>

\* The loopback stream cannot be opened: no loopback device found ("none",
\* only without an explicit loopback device), no supported format
\* ("format"), or every open attempt failed ("open", after capture_sr_spk
\* was set).
StartLoopbackFail(a) ==
    \E why \in {"none", "format", "open"} :
        /\ Take
        /\ ~NoDevice(a) /\ ~NoMic(a)
        /\ why = "none" => ~a.lb
        /\ TakeConfig(a)
        /\ capture_sr_spk' = IF why = "open" THEN LoopRate ELSE capture_sr_spk
        /\ emitted' = << Ev("ERROR", "Loopback error"),
                         Ev("STATUS", "Ready to record") >>
        /\ Teardown
        /\ UNCHANGED <<ctl, is_recording, mic_queue, loop_queue,
                       capture_sr_mic, raw_wave, raw_frames_written,
                       raw_file, delivered>>

\* The loopback stream is open, the mic stream cannot be opened.
StartMicFail(a) ==
    \E why \in {"format", "open"} :
        /\ Take
        /\ ~NoDevice(a) /\ ~NoMic(a)
        /\ WithMic(a)
        /\ TakeConfig(a)
        /\ capture_sr_spk' = LoopRate
        /\ capture_sr_mic' = IF why = "open" THEN MicRate ELSE capture_sr_mic
        /\ emitted' = << Ev("ERROR", "Mic error"),
                         Ev("STATUS", "Ready to record") >>
        /\ Teardown
        /\ UNCHANGED <<ctl, is_recording, mic_queue, loop_queue, raw_wave,
                       raw_frames_written, raw_file, delivered>>

\* Raw mode, the loopback stream is open, the raw WAV cannot be opened.
StartRawFail(a) ==
        /\ Take
        /\ ~NoDevice(a) /\ ~NoMic(a)
        /\ a.raw
        /\ TakeConfig(a)
        /\ capture_sr_spk' = LoopRate
        /\ emitted' = << Ev("ERROR", "Cannot open raw WAV"),
                         Ev("STATUS", "Ready to record") >>
        /\ Teardown
        /\ UNCHANGED <<ctl, is_recording, mic_queue, loop_queue,
                       capture_sr_mic, raw_wave, raw_frames_written,
                       raw_file, delivered>>

\* Raw mode, the loopback stream is open, creating the dump directory
\* raises (lines 357-358 are outside the try): the exception leaves
\* start_recording and run, the controller thread ends.
StartRawDirFail(a) ==
        /\ Take
        /\ ~NoDevice(a) /\ ~NoMic(a)
        /\ a.raw
        /\ TakeConfig(a)
        /\ capture_sr_spk' = LoopRate
        /\ emitted' = <<>>
        /\ threads' = Reopened(threads, FALSE)
        /\ spk_stream' = TRUE
        /\ p' = TRUE
        /\ ctl' = "crashed"
        /\ UNCHANGED <<is_recording, mic_stream, mic_queue, loop_queue,
                       capture_sr_mic, raw_wave, raw_frames_written,
                       raw_file, delivered>>

\* Everything opens: the session starts and the readers are launched.
StartOk(a) ==
        /\ Take
        /\ ~NoDevice(a) /\ ~NoMic(a)
        /\ TakeConfig(a)
        /\ capture_sr_spk' = LoopRate
        /\ capture_sr_mic' = IF WithMic(a) THEN MicRate ELSE capture_sr_mic
        /\ p' = TRUE
        /\ spk_stream' = TRUE
        /\ mic_stream' = IF WithMic(a) THEN TRUE ELSE mic_stream
        /\ raw_wave' = IF a.raw THEN TRUE ELSE raw_wave
        /\ raw_frames_written' = IF a.raw THEN 0 ELSE raw_frames_written
        /\ raw_file' = IF a.raw THEN <<>> ELSE raw_file
        /\ is_recording' = TRUE
        /\ emitted' = (IF a.raw THEN << Ev("INFO", "Raw dump") >> ELSE <<>>)
                      \o << Ev("STATUS", "Recording") >>
        /\ threads' = Launched(Reopened(threads, WithMic(a)), WithMic(a))
        /\ UNCHANGED <<ctl, mic_queue, loop_queue, delivered>>

start_recording(a) ==
    \/ StartNoDevice(a)
    \/ StartNoMic(a)
    \/ StartLoopbackFail(a)
    \/ StartMicFail(a)
    \/ StartRawFail(a)
    \/ StartRawDirFail(a)
    \/ StartOk(a)

\* ------------------------------------------------------- run: SET_GAINS
SetGains(a) ==
        LET mg == IF a.mg = Absent THEN mic_gain ELSE a.mg
            lg == IF a.lg = Absent THEN loop_gain ELSE a.lg
        IN  /\ Take
            /\ mic_gain' = Clamp(mg)
            /\ loop_gain' = Clamp(lg)
            /\ emitted' = << Ev("STATUS", "Recording") >>
            /\ UNCHANGED <<ctl, is_recording, include_mic, raw_dump, p,
                           mic_stream, spk_stream, threads, mic_queue,
                           loop_queue, capture_sr_mic, capture_sr_spk,
                           raw_wave, raw_frames_written, raw_file, delivered>>

\* --------------------------------------------------------- readers
Handle(k) == IF k = "mic" THEN mic_stream ELSE spk_stream

\* variant for C15: a while condition that ignores the running flag
KeepReadingNoFlag(k) == Handle(k)

\* the while condition of _read_loopback / _read_mic
KeepReading(k) == is_recording /\ Handle(k)

\* the number of threads of bag B inside a blocking read
Reading(B) ==
    IF B = EmptyBag THEN 0
    ELSE BagCardinality([t \in {u \in BagToSet(B) : u.pc = "reading"} |-> B[t]])

InFlight == Reading(threads)

\* One evaluation of the while condition by thread t; if it holds the
\* thread enters the blocking read of the stream the handle names.
ThreadLoop(t) ==
    /\ t.pc = "loop"
    /\ KeepReading(t.kind) => delivered + InFlight < MaxBlocks
    /\ threads' = Replace(threads, t,
                     IF KeepReading(t.kind)
                     THEN [t EXCEPT !.pc = "reading", !.on = "cur"]
                     ELSE [t EXCEPT !.pc = "done"])
    /\ emitted' = <<>>
    /\ UNCHANGED <<ctlVars, mic_queue, loop_queue, raw_frames_written,
                   raw_file, delivered>>

\* metering: a LEVEL event when 0.1 s have passed since the last one of
\* this thread (due); the clock is not part of the state, the outcome of
\* the comparison is the environment's
Level(due, tag) == IF due THEN << Ev("LEVEL", tag) >> ELSE <<>>

\* variant for C20: a block queued without the gain applied
BlockDefaultGain(n, g) == [n |-> n, g |-> GAIN_DEFAULT]

\* block number n, scaled by gain g
Block(n, g) == [n |-> n, g |-> g]

\* the thread is back at the while condition
Looping(t) == [t EXCEPT !.pc = "loop", !.on = "cur", !.blk = 0]

\* The blocking read of thread t returns the next block the hardware
\* delivers; the thread holds it (local data / x) until it has recorded it.
ReadReturns(t) ==
    /\ t.pc = "reading"
    /\ delivered' = delivered + 1
    /\ threads' = Replace(threads, t,
                     [t EXCEPT !.pc = "got", !.blk = delivered + 1])
    /\ emitted' = <<>>
    /\ UNCHANGED <<ctlVars, mic_queue, loop_queue, raw_frames_written,
                   raw_file>>

\* _read_mic: the block read is scaled by mic_gain and queued
MicRead(t) ==
    \E due \in BOOLEAN :
        /\ t.kind = "mic" /\ t.pc = "got"
        /\ mic_queue' = Append(mic_queue, Block(t.blk, mic_gain))
        /\ emitted' = Level(due, "mic")
        /\ threads' = Replace(threads, t, Looping(t))
        /\ UNCHANGED <<ctlVars, loop_queue, raw_frames_written, raw_file,
                       delivered>>

\* _read_loopback, normal mode: the block is scaled by loop_gain and queued
LoopRead(t) ==
    \E due \in BOOLEAN :
        /\ t.kind = "loop" /\ t.pc = "got"
        /\ ~raw_dump
        /\ loop_queue' = Append(loop_queue, Block(t.blk, loop_gain))
        /\ emitted' = Level(due, "sys")
        /\ threads' = Replace(threads, t, Looping(t))
        /\ UNCHANGED <<ctlVars, mic_queue, raw_frames_written, raw_file,
                       delivered>>

\* _read_loopback, raw mode: the bytes read are written to the raw WAV
LoopReadRaw(t) ==
    \E due \in BOOLEAN :
        /\ t.kind = "loop" /\ t.pc = "got"
        /\ raw_dump /\ raw_wave
        /\ raw_file' = Append(raw_file, t.blk)
        /\ raw_frames_written' = raw_frames_written + BLOCK
        /\ emitted' = Level(due, "sys")
        /\ threads' = Replace(threads, t, Looping(t))
        /\ UNCHANGED <<ctlVars, mic_queue, loop_queue, delivered>>

\* variant for C4: an except clause that reports nothing
ReadFailedSilently(k) == <<>>

\* what the except clause of a reader puts
ReadFailed(k) ==
    IF is_recording
    THEN << Ev("ERROR", IF k = "mic" THEN "Mic read error"
                        ELSE "Loopback read error") >>
    ELSE <<>>

\* The blocking read of thread t raises: the except clause reports it if
\* the session is still running, and the thread ends.
ReadError(t) ==
    /\ t.pc = "reading"
    /\ emitted' = ReadFailed(t.kind)
    /\ threads' = Replace(threads, t, [t EXCEPT !.pc = "done"])
    /\ UNCHANGED <<ctlVars, mic_queue, loop_queue, raw_frames_written,
                   raw_file, delivered>>

\* _read_loopback, raw mode: writeframes raises on the block read (an I/O
\* error, or raw_wave is None); same except clause.
LoopWriteError(t) ==
    /\ t.kind = "loop" /\ t.pc = "got"
    /\ raw_dump
    /\ emitted' = ReadFailed("loop")
    /\ threads' = Replace(threads, t, [t EXCEPT !.pc = "done"])
    /\ UNCHANGED <<ctlVars, mic_queue, loop_queue, raw_frames_written,
                   raw_file, delivered>>

\* --------------------------------------------------- stop_recording
\* STOP with no session running returns at once.
StopIdle ==
    /\ Take
    /\ ~is_recording
    /\ emitted' = <<>>
    /\ UNCHANGED <<ctl, is_recording, include_mic, raw_dump, p, mic_stream,
                   spk_stream, threads, mic_queue, loop_queue,
                   capture_sr_mic, capture_sr_spk, mic_gain, loop_gain,
                   raw_wave, raw_frames_written, raw_file, delivered>>

\* variant for C11: a stop_recording without its guard at line 390
ClearFlagUnguarded(next) ==
    /\ is_recording' = FALSE
    /\ emitted' = << Ev("STATUS", "Processing audio") >>
    /\ ctl' = next
    /\ UNCHANGED <<include_mic, raw_dump, p, mic_stream, spk_stream, threads,
                   mic_queue, loop_queue, capture_sr_mic, capture_sr_spk,
                   mic_gain, loop_gain, raw_wave, raw_frames_written,
                   raw_file, delivered>>

\* lines 392-393: the flag is cleared; the controller then waits in join
ClearFlag(next) ==
    /\ is_recording
    /\ is_recording' = FALSE
    /\ emitted' = << Ev("STATUS", "Processing audio") >>
    /\ ctl' = next
    /\ UNCHANGED <<include_mic, raw_dump, p, mic_stream, spk_stream, threads,
                   mic_queue, loop_queue, capture_sr_mic, capture_sr_spk,
                   mic_gain, loop_gain, raw_wave, raw_frames_written,
                   raw_file, delivered>>

StopBegin == Take /\ ClearFlag("join")

\* run, EXIT while recording: stop_recording first
ExitBegin == Take /\ ClearFlag("join_exit")

\* run, EXIT with no session: _teardown, then the loop ends
ExitIdle ==
    /\ Take
    /\ ~is_recording
    /\ Teardown
    /\ ctl' = "exited"
    /\ emitted' = <<>>
    /\ UNCHANGED <<is_recording, include_mic, raw_dump, mic_queue,
                   loop_queue, capture_sr_mic, capture_sr_spk, mic_gain,
                   loop_gain, raw_wave, raw_frames_written, raw_file,
                   delivered>>

\* lines 395-396: both join calls have returned, i.e. the threads that
\* self.mic_thread and self.loop_thread name have ended
Joined == \A t \in BagToSet(threads) : t.ref => t.pc = "done"

\* where the controller goes when stop_recording returns
AfterStop == IF ctl = "join" THEN "get" ELSE "exited"

\* variant for C29: nothing is saved unless both streams delivered
ProcessAndEmitBothOnly(loop_frames, mic_frames) ==
    IF loop_frames = <<>> \/ mic_frames = <<>>
    THEN << Ev("INFO", "No audio captured. Nothing saved."),
            Ev("STATUS", "Ready to record") >>
    ELSE << Ev("INFO", "Max peaks"),
            SaveFile([frames |-> Min(ResampleLen(Frames(mic_frames),
                                                 capture_sr_mic, TARGET_SR),
                                     ResampleLen(Frames(loop_frames),
                                                 capture_sr_spk, TARGET_SR)),
                      mic |-> mic_frames, loop |-> loop_frames]),
            Ev("STATUS", "Ready to record") >>

\* _process_and_emit on the drained lists: the events it puts
ProcessAndEmit(loop_frames, mic_frames) ==
    LET mic_len == ResampleLen(Frames(mic_frames), capture_sr_mic, TARGET_SR)
        loop_len == ResampleLen(Frames(loop_frames), capture_sr_spk, TARGET_SR)
    IN  IF loop_frames = <<>> /\ mic_frames = <<>>
        THEN << Ev("INFO", "No audio captured. Nothing saved."),
                Ev("STATUS", "Ready to record") >>
        ELSE IF mic_frames = <<>>
        THEN << Ev("INFO", "System-only peak"),
                SaveFile([frames |-> loop_len, mic |-> <<>>,
                          loop |-> loop_frames]) >>
        ELSE IF loop_frames = <<>>
        THEN << Ev("INFO", "Mic-only peak"),
                SaveFile([frames |-> mic_len, mic |-> mic_frames,
                          loop |-> <<>>]) >>
        ELSE << Ev("INFO", "Max peaks"),
                SaveFile([frames |-> Min(mic_len, loop_len),
                          mic |-> mic_frames, loop |-> loop_frames]),
                Ev("STATUS", "Ready to record") >>

\* lines 414-415: the readers have joined; drain, process, emit, tear down
StopFinish ==
    /\ ctl \in {"join", "join_exit"}
    /\ Joined
    /\ ~raw_dump
    /\ emitted' = ProcessAndEmit(loop_queue, mic_queue)
    /\ loop_queue' = <<>>
    /\ mic_queue' = <<>>
    /\ Teardown
    /\ ctl' = AfterStop
    /\ UNCHANGED <<is_recording, include_mic, raw_dump,
                   capture_sr_mic, capture_sr_spk, mic_gain, loop_gain,
                   raw_wave, raw_frames_written, raw_file, delivered, ncmd>>

\* lines 398-412: raw mode; the raw WAV is closed (closing may raise)
StopFinishRaw ==
    \E closes \in BOOLEAN :
        /\ ctl \in {"join", "join_exit"}
        /\ Joined
        /\ raw_dump
        /\ emitted' = (IF ~raw_wave THEN <<>>
                       ELSE IF closes
                       THEN << Ev("INFO", "Raw dump wrote frames"),
                               Ev("INFO", "Saved raw file") >>
                       ELSE << Ev("ERROR", "Error closing raw WAV") >>)
                      \o << Ev("STATUS", "Ready to record") >>
        /\ raw_wave' = FALSE
        /\ raw_frames_written' = 0
        /\ Teardown
        /\ ctl' = AfterStop
        /\ UNCHANGED <<is_recording, include_mic, raw_dump,
                       mic_queue, loop_queue, capture_sr_mic, capture_sr_spk,
                       mic_gain, loop_gain, raw_file, delivered, ncmd>>

stop_recording == StopIdle \/ StopBegin \/ StopFinish \/ StopFinishRaw

\* ------------------------------------------------------ specification
Next ==
    \/ UNCHANGED sideVars /\ \E a \in StartArgs : StartNoDevice(a)
    \/ UNCHANGED sideVars /\ \E a \in StartArgs : StartNoMic(a)
    \/ UNCHANGED sideVars /\ \E a \in StartArgs : StartLoopbackFail(a)
    \/ UNCHANGED sideVars /\ \E a \in StartArgs : StartMicFail(a)
    \/ UNCHANGED sideVars /\ \E a \in StartArgs : StartRawFail(a)
    \/ UNCHANGED sideVars /\ \E a \in StartArgs : StartRawDirFail(a)
    \/ UNCHANGED sideVars /\ \E a \in StartArgs : StartOk(a)
    \/ UNCHANGED sideVars /\ \E a \in GainArgs : SetGains(a)
    \/ UNCHANGED sideVars /\ StopIdle
    \/ UNCHANGED sideVars /\ StopBegin
    \/ UNCHANGED sideVars /\ StopFinish
    \/ UNCHANGED sideVars /\ StopFinishRaw
    \/ UNCHANGED sideVars /\ ExitBegin
    \/ UNCHANGED sideVars /\ ExitIdle
    \/ UNCHANGED sideVars /\ \E t \in BagToSet(threads) : ThreadLoop(t)
    \/ UNCHANGED sideVars /\ \E t \in BagToSet(threads) : ReadReturns(t)
    \/ UNCHANGED sideVars /\ \E t \in BagToSet(threads) : MicRead(t)
    \/ UNCHANGED sideVars /\ \E t \in BagToSet(threads) : LoopRead(t)
    \/ UNCHANGED sideVars /\ \E t \in BagToSet(threads) : LoopReadRaw(t)
    \/ UNCHANGED sideVars /\ \E t \in BagToSet(threads) : ReadError(t)
    \/ UNCHANGED sideVars /\ \E t \in BagToSet(threads) : LoopWriteError(t)

Spec == Init /\ [][Next]_vars

\* The controller followed from a raw dump session that has just started:
\* the state the first START of a run leaves when it asks for a raw dump
\* and everything opens (StartOk from Init), with the commands counted from
\* there.
RawSessionInit ==
    /\ ctl = "get"
    /\ is_recording = TRUE
    /\ include_mic = FALSE
    /\ raw_dump = TRUE
    /\ p = TRUE
    /\ mic_stream = FALSE
    /\ spk_stream = TRUE
    /\ threads = One(NewThread("loop"))
    /\ mic_queue = <<>>
    /\ loop_queue = <<>>
    /\ capture_sr_mic = TARGET_SR
    /\ capture_sr_spk = LoopRate
    /\ \E g \in StartGains : mic_gain = g[1] /\ loop_gain = g[2]
    /\ raw_wave = TRUE
    /\ raw_frames_written = 0
    /\ raw_file = <<>>
    /\ emitted = << Ev("INFO", "Raw dump"), Ev("STATUS", "Recording") >>
    /\ delivered = 0
    /\ ncmd = 0
    /\ NumIdle
    /\ FnIdle
    /\ MeterIdle
    /\ ExtraIdle

RawSessionSpec == RawSessionInit /\ [][Next]_vars

\* a step of some reader thread
ThreadStep ==
    UNCHANGED sideVars /\ \E t \in BagToSet(threads) :
        \/ ThreadLoop(t) \/ ReadReturns(t) \/ MicRead(t) \/ LoopRead(t)
        \/ LoopReadRaw(t) \/ ReadError(t) \/ LoopWriteError(t)

\* Every hardware read returns (or raises) and every thread that can run
\* is scheduled; the controller goes on once its joins have returned.
FairSpec ==
    /\ Spec
    /\ WF_vars(ThreadStep)
    /\ WF_vars(UNCHANGED sideVars /\ (StopFinish \/ StopFinishRaw))

\* ------------------------------------------------- sample arithmetic
\* The arithmetic on samples, followed on one block and on one pair of
\* signals.  A block as read is a sequence of int16 values.  A float sample
\* of a reader is held as an integer count of 1/(32767 * 100), so that the
\* conversion and a gain in hundredths are exact.  A sample of the mix is
\* held in thousandths; the limiter's quotient is cut to a whole thousandth.
MaxLen == 2

\* float 1.0 in the readers' unit: int16 32767 becomes 32767 / 32767.0
FullScale == 32767 * 100

\* 0.98 in thousandths
TARGET_PEAK == 980

Samples == {-32768, 0, 16384, 32767}
DataBlocks == UNION {[1..n -> Samples] : n \in 1..MaxLen}
GainValues == {GAIN_MIN, 50, GAIN_DEFAULT, GAIN_MAX}
MixSamples == {-1200, -600, 0, 600, 980, 3000}
Signals == UNION {[1..n -> MixSamples] : n \in 0..MaxLen}

Abs(v) == IF v < 0 THEN -v ELSE v

\* float(np.max(np.abs(x))) if x.size else 0.0
Peak(b) ==
    IF b = <<>> THEN 0
    ELSE LET m == {Abs(b[i]) : i \in DOMAIN b}
         IN  CHOOSE v \in m : \A w \in m : w <= v

\* arr / 32767.0
float_from_int16_bytes(d) == [i \in DOMAIN d |-> d[i] * 100]

\* variant for C19: the gain is not applied to the block
Unscaled(b, g) == b

\* x *= gain, with the gain in hundredths
Scaled(b, g) == [i \in DOMAIN b |-> (b[i] * g) \div 100]

\* a quotient cut towards zero
Quot(a, b) == IF a < 0 THEN -((-a) \div b) ELSE a \div b

\* variant for C16: the block is always brought to the ceiling
limit_normalize(b) ==
    LET peak == Peak(b)
    IN  IF peak > 0 THEN [i \in DOMAIN b |-> Quot(b[i] * TARGET_PEAK, peak)]
        ELSE b

\* variant for C17 and C39: the block passes unchanged
limit_off(b) == b

\* _limit_down: x * (TARGET_PEAK / peak) if the peak is above the ceiling
limit_down(b) ==
    LET peak == Peak(b)
    IN  IF peak > TARGET_PEAK /\ peak > 0
        THEN [i \in DOMAIN b |-> Quot(b[i] * TARGET_PEAK, peak)]
        ELSE b

\* np.clip(x, -1.0, 1.0), on thousandths
clip_unit(b) == [i \in DOMAIN b |-> Max(-1000, Min(1000, b[i]))]

\* to_int16: (np.clip(x, -1.0, 1.0) * 32767).astype(np.int16), the cast
\* cutting towards zero
to_int16(b) == [i \in DOMAIN b |-> Quot(clip_unit(b)[i] * 32767, 1000)]

\* what enters the limiter: the one signal there is, or mic2 + loop2 cut to
\* the shorter of the two
PreLimit(m, l) ==
    IF m = <<>> THEN l
    ELSE IF l = <<>> THEN m
    ELSE [i \in 1..Min(Len(m), Len(l)) |-> m[i] + l[i]]

NumInit ==
    /\ Constructed
    /\ FnIdle
    /\ MeterIdle
    /\ ExtraIdle
    /\ level = NoLevel
    /\ x = <<>>
    /\ mixed = NotMixed
    /\ mixed_i16 = <<>>
    /\ \/ /\ data \in DataBlocks
          /\ raw_dump \in BOOLEAN
          /\ mic_gain \in GainValues
          /\ loop_gain \in GainValues
          /\ mic_rs = <<>>
          /\ loop_rs = <<>>
       \/ /\ data = <<>>
          /\ raw_dump = FALSE
          /\ mic_gain = GAIN_DEFAULT
          /\ loop_gain = GAIN_DEFAULT
          /\ mic_rs \in Signals
          /\ loop_rs \in Signals
          /\ mic_rs # <<>> \/ loop_rs # <<>>

\* _read_mic on one block: convert, scale, queue, meter
ReadMicBlock ==
    /\ data # <<>>
    /\ level = NoLevel
    /\ x' = Scaled(float_from_int16_bytes(data), mic_gain)
    /\ level' = [tag |-> "mic", peak |-> Peak(x')]
    /\ UNCHANGED <<ctlVars, threads, mic_queue, loop_queue, raw_frames_written,
                   raw_file, emitted, delivered, data, mic_rs, loop_rs, mixed,
                   mixed_i16,
                   fnVars, meterVars, extraVars>>

\* _read_loopback on one block: convert, then write the bytes as read (raw
\* dump) or scale and queue, then meter what x holds
ReadLoopbackBlock ==
    /\ data # <<>>
    /\ level = NoLevel
    /\ x' = (IF raw_dump THEN float_from_int16_bytes(data)
             ELSE Scaled(float_from_int16_bytes(data), loop_gain))
    /\ level' = [tag |-> "sys", peak |-> Peak(x')]
    /\ UNCHANGED <<ctlVars, threads, mic_queue, loop_queue, raw_frames_written,
                   raw_file, emitted, delivered, data, mic_rs, loop_rs, mixed,
                   mixed_i16,
                   fnVars, meterVars, extraVars>>

\* _process_and_emit on the resampled signals: system-only, mic-only or both
LimitMix ==
    /\ mic_rs # <<>> \/ loop_rs # <<>>
    /\ mixed = NotMixed
    /\ mixed' = limit_down(PreLimit(mic_rs, loop_rs))
    /\ mixed_i16' = to_int16(mixed')
    /\ UNCHANGED <<ctlVars, threads, mic_queue, loop_queue, raw_frames_written,
                   raw_file, emitted, delivered, data, x, level, mic_rs, loop_rs,
                   fnVars, meterVars, extraVars>>

NumNext == ReadMicBlock \/ ReadLoopbackBlock \/ LimitMix

NumSpec == NumInit /\ [][NumNext]_vars

\* ---------------------------------------------------- helper functions
\* One call of a helper function: call holds the function and its
\* arguments, ret the value once it has returned.
SR_CANDIDATES == <<48000, 44100, 32000, 24000>>

\* the formats a device of the environment may accept
Formats == {44100, 48000} \X {1, 2}

\* device info as PyAudio gives it, with the formats is_format_supported
\* accepts for the device
Devices == [defaultSampleRate : {44100, 48000}, maxInputChannels : {1, 2},
            accepts : SUBSET Formats]

\* _find_supported: the first (rate, channels) accepted, rates in the order
\* [suggested_sr] + SR_CANDIDATES, each with channels in the order
\* [channels, 2, 1]
find_supported(accepts, suggested_sr, channels) ==
    LET srs == <<suggested_sr>> \o SR_CANDIDATES
        chs == <<channels, 2, 1>>
        sr_try(k) == srs[((k - 1) \div 3) + 1]
        ch_try(k) == chs[((k - 1) % 3) + 1]
        hits == {k \in 1..(3 * Len(srs)) : <<sr_try(k), ch_try(k)>> \in accepts}
    IN  IF hits = {} THEN [ok |-> FALSE, ch |-> 0, sr |-> suggested_sr]
        ELSE LET k == CHOOSE h \in hits : \A j \in hits : h <= j
             IN  [ok |-> TRUE, ch |-> ch_try(k), sr |-> sr_try(k)]

\* _open_mic / _open_loopback_by_index up to the open: the format asked for
\* is the device's default rate and at most 2 of its channels; ok FALSE is
\* the RuntimeError raised, no stream opened
Negotiate(dev) ==
    find_supported(dev.accepts, dev.defaultSampleRate,
                   Max(1, Min(dev.maxInputChannels, 2)))

\* device names are short words over two letters
MaxName == 2
MaxDevs == 2
Names == UNION {[1..n -> {"a", "b"}] : n \in 1..MaxName}

\* the loopbacks dict of list_devices, as its keys in insertion order
LoopbackLists ==
    {l \in UNION {[1..n -> Names] : n \in 0..MaxDevs} :
        \A i, j \in DOMAIN l : i # j => l[i] # l[j]}

\* name.startswith(base)
StartsWith(name, base) ==
    Len(base) <= Len(name) /\ SubSeq(name, 1, Len(base)) = base

\* sub in name
Contains(name, sub) ==
    \E i \in 1..(Len(name) - Len(sub) + 1) :
        SubSeq(name, i, i + Len(sub) - 1) = sub

\* variant for C24: the substring pass comes first
match_loopback_substring_first(base, loopbacks) ==
    LET sub == {i \in DOMAIN loopbacks :
                   base # <<>> /\ (\/ Contains(loopbacks[i], base)
                                   \/ Contains(base, loopbacks[i]))}
    IN  IF sub # {}
        THEN << loopbacks[CHOOSE i \in sub : \A j \in sub : i <= j] >>
        ELSE <<>>

\* _match_loopback: <<name>> of the first loopback whose name starts with
\* base, else of the first whose name contains base or is contained in it,
\* else <<>> (None)
match_loopback(base, loopbacks) ==
    LET pre == {i \in DOMAIN loopbacks :
                   base # <<>> /\ StartsWith(loopbacks[i], base)}
        sub == {i \in DOMAIN loopbacks :
                   base # <<>> /\ (\/ Contains(loopbacks[i], base)
                                   \/ Contains(base, loopbacks[i]))}
    IN  IF pre # {}
        THEN << loopbacks[CHOOSE i \in pre : \A j \in pre : i <= j] >>
        ELSE IF sub # {}
        THEN << loopbacks[CHOOSE i \in sub : \A j \in sub : i <= j] >>
        ELSE <<>>

\* A numpy array of float samples: ndim 1 (shape (n,)) or 2 (shape
\* (n, cols)); rows holds one tuple of cols samples per frame.
ArrSamples == {-300, 500}
Arrays ==
    UNION {[ndim : {c}, cols : {c}, rows : [1..n -> [1..c -> ArrSamples]]] :
              c \in {1, 2}, n \in 0..MaxLen}

\* x.reshape(-1, 1) if x.ndim == 1
as_2d(a) == IF a.ndim = 1 THEN [a EXCEPT !.ndim = 2] ELSE a

\* a[:, :c]
Columns(a, c) ==
    [a EXCEPT !.cols = c, !.rows = [i \in DOMAIN a.rows |-> SubSeq(a.rows[i], 1, c)]]

\* a[:L]
Rows(a, L) == [a EXCEPT !.rows = SubSeq(a.rows, 1, L)]

match_channels(a, b) ==
    LET a2 == as_2d(a)
        b2 == as_2d(b)
        c == Min(a2.cols, b2.cols)
    IN  << Columns(a2, c), Columns(b2, c) >>

\* _process_and_emit, lines 515-519: mic2 + loop2 on the common channels
\* and the common length (the limiter that follows keeps the shape)
MixedArray(mic, loop) ==
    LET m == match_channels(mic, loop)
        L == Min(Len(m[1].rows), Len(m[2].rows))
        mic2 == Rows(m[1], L)
        loop2 == Rows(m[2], L)
    IN  [mic2 EXCEPT !.rows = [i \in 1..L |->
                                  [c \in 1..mic2.cols |->
                                      mic2.rows[i][c] + loop2.rows[i][c]]]]

\* a sample computed by resample_poly; its value is not followed
Filtered == 12345

\* variant for C30: no shortcut for equal rates
resample_always(a, src_sr, dst_sr) ==
    [a EXCEPT !.rows = [i \in 1..ResampleLen(Len(a.rows), src_sr, dst_sr) |->
                           [c \in 1..a.cols |-> Filtered]]]

\* resample_to: the array itself for equal rates or no samples, else every
\* column resampled by dst_sr / src_sr
resample_to(a, src_sr, dst_sr) ==
    IF src_sr = dst_sr \/ a.rows = <<>> THEN a
    ELSE [a EXCEPT !.rows = [i \in 1..ResampleLen(Len(a.rows), src_sr, dst_sr) |->
                                [c \in 1..a.cols |-> Filtered]]]

\* variant for C26: every file gets the target rate
TargetRate(raw, lb_sr) == TARGET_SR

\* the rate in the header of the file a session leaves: setframerate(lb_sr)
\* for the raw dump, write_wav(path, TARGET_SR, ..) otherwise
OutputRate(raw, lb_sr) == IF raw THEN lb_sr ELSE TARGET_SR

FnInit ==
    /\ Constructed
    /\ raw_dump = FALSE
    /\ mic_gain = GAIN_DEFAULT
    /\ loop_gain = GAIN_DEFAULT
    /\ NumIdle
    /\ MeterIdle
    /\ ExtraIdle
    /\ ret = <<>>
    /\ \/ \E dev \in Devices : call = [fn |-> "open", dev |-> dev]
       \/ \E base \in Names \cup {<<>>}, l \in LoopbackLists :
             call = [fn |-> "resolve", base |-> base, loopbacks |-> l]
       \/ \E a \in Arrays, b \in Arrays :
             call = [fn |-> "mix", mic |-> a, loop |-> b]
       \/ \E a \in Arrays, s \in {44100, 48000}, d \in {44100, 48000} :
             call = [fn |-> "resample_to", x |-> a, src_sr |-> s, dst_sr |-> d]
       \/ \E dev \in Devices, raw \in BOOLEAN :
             call = [fn |-> "output", dev |-> dev, raw |-> raw]

\* what a helper call leaves alone
fnFrame == <<ctlVars, threads, mic_queue, loop_queue, raw_frames_written,
             raw_file, delivered, numVars, meterVars, extraVars, call>>

OpenDevice ==
    /\ call.fn = "open"
    /\ ret = <<>>
    /\ ret' = << Negotiate(call.dev) >>
    /\ UNCHANGED <<fnFrame, emitted>>

\* start_recording, lines 329-345, with no loopback device given and no
\* session running: the loopback to open is the match for the speaker's
\* name or else the first one; with no loopback at all the RuntimeError is
\* reported and _teardown leaves the controller as it was
ResolveLoopback ==
    /\ call.fn = "resolve"
    /\ ret = <<>>
    /\ IF call.loopbacks = <<>>
       THEN /\ ret' = << [ok |-> FALSE, name |-> <<>>] >>
            /\ emitted' = << Ev("ERROR", "Loopback error"),
                             Ev("STATUS", "Ready to record") >>
       ELSE /\ LET m == match_loopback(call.base, call.loopbacks)
               IN  ret' = << [ok |-> TRUE,
                              name |-> IF m # <<>> THEN m[1]
                                       ELSE call.loopbacks[1]] >>
            /\ emitted' = <<>>
    /\ UNCHANGED fnFrame

\* _process_and_emit with blocks from both streams, up to the limiter
MixBoth ==
    /\ call.fn = "mix"
    /\ call.mic.rows # <<>> /\ call.loop.rows # <<>>
    /\ ret = <<>>
    /\ ret' = << MixedArray(call.mic, call.loop) >>
    /\ UNCHANGED <<fnFrame, emitted>>

Resample ==
    /\ call.fn = "resample_to"
    /\ ret = <<>>
    /\ ret' = << resample_to(call.x, call.src_sr, call.dst_sr) >>
    /\ UNCHANGED <<fnFrame, emitted>>

\* the header of the file a session on loopback device dev leaves: the raw
\* WAV opened by start_recording (lines 361-364) or the file written by
\* save_file_dialog (line 842); ok FALSE if the loopback cannot be opened
WriteOutput ==
    /\ call.fn = "output"
    /\ ret = <<>>
    /\ LET lb == Negotiate(call.dev)
       IN  ret' = << [ok |-> lb.ok,
                      framerate |-> IF lb.ok THEN OutputRate(call.raw, lb.sr)
                                    ELSE 0] >>
    /\ UNCHANGED <<fnFrame, emitted>>

FnNext ==
    \/ OpenDevice
    \/ ResolveLoopback
    \/ MixBoth
    \/ Resample
    \/ WriteOutput

FnSpec == FnInit /\ [][FnNext]_vars

\* ----------------------------------------------------------- metering
\* The metering of the readers against the clock.  Time is counted in ticks
\* of 0.05 s.  A step of the program takes whatever time it takes: the clock
\* advances between steps, or not at all.
MaxTime == 5
MaxReaders == 3

\* 0.1 s
LevelPeriod == 2

\* what a step of the metering leaves alone
meterFrame == <<ctl, include_mic, raw_dump, p, mic_stream, spk_stream,
                threads, mic_queue, loop_queue, capture_sr_mic,
                capture_sr_spk, mic_gain, loop_gain, raw_wave,
                raw_frames_written, raw_file, delivered, ncmd,
                numVars, fnVars, extraVars>>

\* last = 0.0 when a reader starts
NewReader(tag) == [tag |-> tag, last |-> 0, alive |-> TRUE]

\* the clock is well past 0.1 s
MeterInit ==
    /\ Constructed
    /\ raw_dump = FALSE
    /\ mic_gain = GAIN_DEFAULT
    /\ loop_gain = GAIN_DEFAULT
    /\ NumIdle
    /\ FnIdle
    /\ ExtraIdle
    /\ now = LevelPeriod
    /\ readers = <<>>
    /\ level_at = [mic |-> Never, sys |-> Never]

Tick ==
    /\ now < MaxTime
    /\ now' = now + 1
    /\ emitted' = <<>>
    /\ UNCHANGED <<meterFrame, is_recording, readers, level_at>>

\* start_recording, lines 374-387: the flag is set and the readers are
\* launched, the mic reader if the microphone is included
MeterStart(inc) ==
    /\ Len(readers) + (IF inc THEN 2 ELSE 1) <= MaxReaders
    /\ is_recording' = TRUE
    /\ readers' = (IF inc THEN readers \o << NewReader("sys"), NewReader("mic") >>
                   ELSE Append(readers, NewReader("sys")))
    /\ emitted' = << Ev("STATUS", "Recording") >>
    /\ UNCHANGED <<meterFrame, now, level_at>>

\* one iteration of a reader: the while condition holds, a block is read and
\* recorded, and a LEVEL event is put if now - last >= 0.1
MeterRead(i) ==
    /\ is_recording
    /\ readers[i].alive
    /\ IF now - readers[i].last >= LevelPeriod
       THEN /\ emitted' = << Ev("LEVEL", readers[i].tag) >>
            /\ readers' = [readers EXCEPT ![i].last = now]
            /\ level_at' = [level_at EXCEPT ![readers[i].tag] = now]
       ELSE /\ emitted' = <<>>
            /\ UNCHANGED <<readers, level_at>>
    /\ UNCHANGED <<meterFrame, is_recording, now>>

\* stop_recording: the flag is cleared and the readers leave their loops
MeterStop ==
    /\ is_recording
    /\ is_recording' = FALSE
    /\ readers' = [i \in DOMAIN readers |-> [readers[i] EXCEPT !.alive = FALSE]]
    /\ emitted' = <<>>
    /\ UNCHANGED <<meterFrame, now, level_at>>

MeterNext ==
    \/ Tick
    \/ \E inc \in BOOLEAN : MeterStart(inc)
    \/ \E i \in DOMAIN readers : MeterRead(i)
    \/ MeterStop

MeterSpec == MeterInit /\ [][MeterNext]_vars

\* ---------------------------------------------------- soundcard variant
\* process_audio of src/audio_recorder.bak0.py, followed on one pair of
\* drained signals.  Samples are held in thousandths; the gains in
\* hundredths, the limiter drive in hundredths.
MIC_GAIN == 90
LOOP_GAIN == 90
LIMITER_DRIVE == 150

\* float32 samples as the recorder delivers them, within [-1, 1]
BakSamples == {-1000, -500, 0, 100, 1000}
BakSignals == UNION {[1..n -> BakSamples] : n \in 0..MaxLen}

\* np.tanh(v * 1.5) / np.tanh(1.5) for the magnitudes a mix of two gained
\* samples can have, rounded to a whole thousandth
TanhRatio ==
    (0 :> 0) @@ (90 :> 148) @@ (180 :> 291) @@ (360 :> 545) @@ (450 :> 650)
    @@ (810 :> 926) @@ (900 :> 966) @@ (990 :> 997) @@ (1350 :> 1067)
    @@ (1800 :> 1095)

\* line 196: the saturation curve, sample by sample (tanh is odd)
soft_clip(b) ==
    [i \in DOMAIN b |-> IF b[i] < 0 THEN -TanhRatio[-b[i]]
                        ELSE TanhRatio[b[i]]]

\* lines 199-201: mixed *= TARGET_PEAK / peak
peak_normalize(b) ==
    [i \in DOMAIN b |-> Quot(b[i] * TARGET_PEAK, Peak(b))]

\* lines 175-192: both signals cut to the shorter, pre-gained and summed
BakMix(m, l) ==
    [i \in 1..Min(Len(m), Len(l)) |->
        Quot(m[i] * MIC_GAIN, 100) + Quot(l[i] * LOOP_GAIN, 100)]

\* the mix after the saturation curve, if the drive enables it
SoftMix(m, l) ==
    IF LIMITER_DRIVE > 0 THEN soft_clip(BakMix(m, l)) ELSE BakMix(m, l)

BakInit ==
    /\ Constructed
    /\ raw_dump = FALSE
    /\ mic_gain = GAIN_DEFAULT
    /\ loop_gain = GAIN_DEFAULT
    /\ NumIdle
    /\ FnIdle
    /\ MeterIdle
    /\ GuiIdle
    /\ mic_np \in BakSignals
    /\ loopback_np \in BakSignals
    /\ mixed_bak0 = NotMixed
    /\ limiters = {}

\* what process_audio leaves alone
bakFrame == <<ctlVars, threads, mic_queue, loop_queue, raw_frames_written,
              raw_file, delivered, numVars, fnVars, meterVars, guiVars,
              mic_np, loopback_np>>

\* lines 155-158: one of the drained lists is empty, nothing is mixed
ProcessAudioEmpty ==
    /\ emitted = <<>>
    /\ mic_np = <<>> \/ loopback_np = <<>>
    /\ emitted' = << Ev("STATUS", "Ready to record"),
                     Ev("INFO", "One stream was empty. Nothing saved.") >>
    /\ UNCHANGED <<bakFrame, mixed_bak0, limiters>>

\* lines 160-205: gain, mix, saturation curve, peak normalisation, SAVE_FILE
ProcessAudio ==
    /\ emitted = <<>>
    /\ mic_np # <<>> /\ loopback_np # <<>>
    /\ LET soft == SoftMix(mic_np, loopback_np)
           scaled == Peak(soft) > TARGET_PEAK
       IN  /\ mixed_bak0' = IF scaled THEN peak_normalize(soft) ELSE soft
           /\ limiters' = (IF LIMITER_DRIVE > 0 THEN {"tanh"} ELSE {})
                          \cup (IF scaled THEN {"peak"} ELSE {})
           /\ emitted' = << Ev("INFO", "Mic peak | System peak") >>
                         \o (IF Peak(mic_np) = 0
                             THEN << Ev("INFO", "Mic level is extremely low") >>
                             ELSE <<>>)
                         \o << SaveFile([frames |-> Len(soft), mic |-> <<>>,
                                         loop |-> <<>>]) >>
    /\ UNCHANGED bakFrame

BakNext == ProcessAudioEmpty \/ ProcessAudio

SoundcardSpec == BakInit /\ [][BakNext]_vars

\* ------------------------------------------------------------------ GUI
\* AudioRecorderApp on the Tk thread, joined to the controller by the two
\* queues, followed while the window exists.  A callback under way is a
\* frame on stack; a frame whose pc names a dialog has a modal dialog open,
\* inside which Tk's event loop runs and timer callbacks may fire, while
\* the modal grab keeps the clicks off the window.
MaxDepth == 2       \* callbacks nested on the GUI thread

\* line 757: for _ in range(8)
POLL_BATCH == 8

\* what the sliders and the device menus let start_clicked send: a device
\* to capture, a mic if the mic is included, no mic in raw mode, both gains
\* within the slider range
SliderGains == {<<GAIN_DEFAULT, GAIN_MAX>>}

ClickArgs ==
    {[a EXCEPT !.mg = g[1], !.lg = g[2]] :
        a \in {b \in StartArgs : /\ ~NoDevice(b)
                                 /\ b.inc => (b.mic /\ ~b.raw)},
        g \in SliderGains}

SliderArgs == {[NoArgs EXCEPT !.mg = g[1], !.lg = g[2]] : g \in SliderGains}

Command(c, a) == [cmd |-> c, args |-> a]

\* the pcs at which the frame has a modal dialog open
DialogPcs == {"info", "error", "save1", "save2", "dialog"}

Frame(f, k, at) == [fn |-> f, n |-> k, pc |-> at]

Top == stack[Len(stack)]

SetTop(f) == [stack EXCEPT ![Len(stack)] = f]

Pop == SubSeq(stack, 1, Len(stack) - 1)

\* Tk dispatches events: in mainloop, or in the loop of a modal dialog
LoopRuns == IF stack = <<>> THEN TRUE ELSE Top.pc \in DialogPcs

\* process_status is between two messages of its batch
InBatch == stack # <<>> /\ Top.fn = "process_status" /\ Top.pc = "loop"

\* the poll timer as the pair [id, timers]
Poll == [id |-> poll_after_id, timers |-> timers]

\* variant for C40: a poll is scheduled whether or not one is pending
schedule_poll_unguarded(q) == [id |-> TRUE, timers |-> q.timers + 1]

\* _schedule_poll
schedule_poll(q) ==
    IF ~q.id THEN [id |-> TRUE, timers |-> q.timers + 1] ELSE q

\* _cancel_poll
cancel_poll(q) ==
    IF q.id THEN [id |-> FALSE, timers |-> q.timers - 1] ELSE q

SetPoll(q) == poll_after_id' = q.id /\ timers' = q.timers

\* the widgets of lines 763-765, 775-777 and 793-795
EnableStart == start_btn' = TRUE /\ stop_btn' = FALSE

\* what a step of the GUI leaves alone of the controller
guiFrame == <<ctlVars, threads, mic_queue, loop_queue, raw_frames_written,
              raw_file, emitted, delivered, numVars, fnVars, meterVars,
              bakVars>>

\* AudioRecorderApp.__init__ has run, the controller thread is started and
\* the first poll is scheduled (line 674)
AppInit ==
    /\ Constructed
    /\ raw_dump = FALSE
    /\ mic_gain = GAIN_DEFAULT
    /\ loop_gain = GAIN_DEFAULT
    /\ NumIdle
    /\ FnIdle
    /\ MeterIdle
    /\ BakIdle
    /\ command_queue = <<>>
    /\ status_queue = <<>>
    /\ start_btn = TRUE
    /\ stop_btn = FALSE
    /\ status_label = "Ready to record"
    /\ LET q == schedule_poll([id |-> FALSE, timers |-> 0])
       IN  poll_after_id = q.id /\ timers = q.timers
    /\ stack = <<>>

\* ---- clicks: only mainloop dispatches them
\* start_clicked with nothing to capture or no valid mic selected: an error
\* box under modal_guard, no command
StartClickedInvalid ==
    /\ stack = <<>>
    /\ start_btn
    /\ SetPoll(cancel_poll(Poll))
    /\ stack' = << Frame("start_clicked", 0, "dialog") >>
    /\ UNCHANGED <<command_queue, status_queue, start_btn, stop_btn,
                   status_label, guiFrame>>

\* start_clicked: the buttons are switched and START is put
StartClicked(a) ==
    /\ stack = <<>>
    /\ start_btn
    /\ ncmd + Len(command_queue) < MaxCmds
    /\ start_btn' = FALSE
    /\ stop_btn' = TRUE
    /\ command_queue' = Append(command_queue, Command("START", a))
    /\ UNCHANGED <<status_queue, status_label, poll_after_id, timers, stack,
                   guiFrame>>

stop_clicked ==
    /\ stack = <<>>
    /\ stop_btn
    /\ ncmd + Len(command_queue) < MaxCmds
    /\ command_queue' = Append(command_queue, Command("STOP", NoArgs))
    /\ UNCHANGED <<status_queue, start_btn, stop_btn, status_label,
                   poll_after_id, timers, stack, guiFrame>>

\* _on_gain_change: a slider is moved
on_gain_change(a) ==
    /\ stack = <<>>
    /\ ncmd + Len(command_queue) < MaxCmds
    /\ command_queue' = Append(command_queue, Command("SET_GAINS", a))
    /\ UNCHANGED <<status_queue, start_btn, stop_btn, status_label,
                   poll_after_id, timers, stack, guiFrame>>

\* browse_directory: the directory chooser under modal_guard
browse_directory ==
    /\ stack = <<>>
    /\ start_btn
    /\ SetPoll(cancel_poll(Poll))
    /\ stack' = << Frame("browse_directory", 0, "dialog") >>
    /\ UNCHANGED <<command_queue, status_queue, start_btn, stop_btn,
                   status_label, guiFrame>>

\* ---- process_status
\* the timer fires: Tk calls process_status, which clears _poll_after_id
PollFires ==
    /\ timers > 0
    /\ LoopRuns
    /\ Len(stack) < MaxDepth
    /\ timers' = timers - 1
    /\ poll_after_id' = FALSE
    /\ stack' = Append(stack, Frame("process_status", 0, "loop"))
    /\ UNCHANGED <<command_queue, status_queue, start_btn, stop_btn,
                   status_label, guiFrame>>

\* get_nowait returns a message of type ty
Gets(ty) ==
    /\ InBatch
    /\ Top.n < POLL_BATCH
    /\ status_queue # <<>>
    /\ Head(status_queue).type = ty
    /\ status_queue' = Tail(status_queue)

\* STATUS: the text is shown; "Ready to record" enables Start
GetStatus ==
    /\ Gets("STATUS")
    /\ status_label' = Head(status_queue).text
    /\ IF Head(status_queue).text = "Ready to record"
       THEN EnableStart
       ELSE UNCHANGED <<start_btn, stop_btn>>
    /\ stack' = SetTop(Frame("process_status", Top.n + 1, "loop"))
    /\ UNCHANGED <<command_queue, poll_after_id, timers, guiFrame>>

\* LEVEL: a meter is set
GetLevel ==
    /\ Gets("LEVEL")
    /\ stack' = SetTop(Frame("process_status", Top.n + 1, "loop"))
    /\ UNCHANGED <<command_queue, start_btn, stop_btn, status_label,
                   poll_after_id, timers, guiFrame>>

\* INFO: a message box under modal_guard
GetInfo ==
    /\ Gets("INFO")
    /\ SetPoll(cancel_poll(Poll))
    /\ stack' = SetTop(Frame("process_status", Top.n, "info"))
    /\ UNCHANGED <<command_queue, start_btn, stop_btn, status_label,
                   guiFrame>>

\* ERROR: an error box under modal_guard
GetError ==
    /\ Gets("ERROR")
    /\ SetPoll(cancel_poll(Poll))
    /\ stack' = SetTop(Frame("process_status", Top.n, "error"))
    /\ UNCHANGED <<command_queue, start_btn, stop_btn, status_label,
                   guiFrame>>

\* SAVE_FILE: save_file_dialog opens the file dialog under modal_guard
GetSaveFile ==
    /\ Gets("SAVE_FILE")
    /\ SetPoll(cancel_poll(Poll))
    /\ stack' = SetTop(Frame("process_status", Top.n, "save1"))
    /\ UNCHANGED <<command_queue, start_btn, stop_btn, status_label,
                   guiFrame>>

\* the dialog open at pc at of process_status
DialogAt(at) ==
    /\ stack # <<>>
    /\ Top.fn = "process_status"
    /\ Top.pc = at

\* A dialog after which the callback has nothing left to do is closed, the
\* box of an INFO or the dialog of a click: modal_guard schedules the poll
\* again, process_status goes on with its batch, the click handler returns.
ModalGuardExits ==
    /\ stack # <<>>
    /\ Top.pc \in {"info", "dialog"}
    /\ SetPoll(schedule_poll(Poll))
    /\ stack' = IF Top.pc = "dialog" THEN Pop
                ELSE SetTop(Frame("process_status", Top.n + 1, "loop"))
    /\ UNCHANGED <<command_queue, status_queue, start_btn, stop_btn,
                   status_label, guiFrame>>

\* lines 774-777: after the error box the GUI goes back to Ready
ErrorCloses ==
    /\ DialogAt("error")
    /\ SetPoll(schedule_poll(Poll))
    /\ status_label' = "Ready to record"
    /\ EnableStart
    /\ stack' = SetTop(Frame("process_status", Top.n + 1, "loop"))
    /\ UNCHANGED <<command_queue, status_queue, guiFrame>>

\* the file dialog is closed (or has raised): the file is written or not,
\* and a second box, under a modal_guard of its own, says so
SaveReported ==
    /\ DialogAt("save1")
    /\ SetPoll(cancel_poll(schedule_poll(Poll)))
    /\ stack' = SetTop(Frame("process_status", Top.n, "save2"))
    /\ UNCHANGED <<command_queue, status_queue, start_btn, stop_btn,
                   status_label, guiFrame>>

\* save_file_dialog returns, from the file dialog closed with no path chosen
\* or from the second box; lines 792-795
SaveFileDialogReturns ==
    /\ stack # <<>>
    /\ Top.fn = "process_status"
    /\ Top.pc \in {"save1", "save2"}
    /\ SetPoll(schedule_poll(Poll))
    /\ status_label' = "Ready to record"
    /\ EnableStart
    /\ stack' = SetTop(Frame("process_status", Top.n + 1, "loop"))
    /\ UNCHANGED <<command_queue, status_queue, guiFrame>>

\* the batch is done or the queue is empty: finally, _schedule_poll
ProcessStatusReturns ==
    /\ InBatch
    /\ Top.n = POLL_BATCH \/ status_queue = <<>>
    /\ SetPoll(schedule_poll(Poll))
    /\ stack' = Pop
    /\ UNCHANGED <<command_queue, status_queue, start_btn, stop_btn,
                   status_label, guiFrame>>

\* ---- the controller behind the queues
\* what a step of the controller or of a reader leaves alone of the GUI
appFrame == <<numVars, fnVars, meterVars, bakVars, start_btn, stop_btn,
              status_label, poll_after_id, timers, stack>>

\* the command run's command_queue.get() returns next
HeadIs(c) == command_queue # <<>> /\ Head(command_queue).cmd = c

\* run has taken the command at the head of command_queue
Taken ==
    /\ command_queue' = Tail(command_queue)
    /\ status_queue' = status_queue \o emitted'
    /\ UNCHANGED appFrame

\* a step that takes no command
Runs ==
    /\ status_queue' = status_queue \o emitted'
    /\ UNCHANGED <<command_queue, appFrame>>

AppNext ==
    \/ StartClickedInvalid
    \/ \E a \in ClickArgs : StartClicked(a)
    \/ stop_clicked
    \/ \E a \in SliderArgs : on_gain_change(a)
    \/ browse_directory
    \/ PollFires
    \/ GetStatus
    \/ GetLevel
    \/ GetInfo
    \/ GetError
    \/ GetSaveFile
    \/ ModalGuardExits
    \/ ErrorCloses
    \/ SaveReported
    \/ SaveFileDialogReturns
    \/ ProcessStatusReturns
    \/ HeadIs("START") /\ StartLoopbackFail(Head(command_queue).args) /\ Taken
    \/ HeadIs("START") /\ StartMicFail(Head(command_queue).args) /\ Taken
    \/ HeadIs("START") /\ StartRawFail(Head(command_queue).args) /\ Taken
    \/ HeadIs("START") /\ StartRawDirFail(Head(command_queue).args) /\ Taken
    \/ HeadIs("START") /\ StartOk(Head(command_queue).args) /\ Taken
    \/ HeadIs("SET_GAINS") /\ SetGains(Head(command_queue).args) /\ Taken
    \/ HeadIs("STOP") /\ StopIdle /\ Taken
    \/ HeadIs("STOP") /\ StopBegin /\ Taken
    \/ StopFinish /\ Runs
    \/ StopFinishRaw /\ Runs
    \/ (\E t \in BagToSet(threads) : ThreadLoop(t)) /\ Runs
    \/ (\E t \in BagToSet(threads) : ReadReturns(t)) /\ Runs
    \/ (\E t \in BagToSet(threads) : MicRead(t)) /\ Runs
    \/ (\E t \in BagToSet(threads) : LoopRead(t)) /\ Runs
    \/ (\E t \in BagToSet(threads) : LoopReadRaw(t)) /\ Runs
    \/ (\E t \in BagToSet(threads) : ReadError(t)) /\ Runs
    \/ (\E t \in BagToSet(threads) : LoopWriteError(t)) /\ Runs

AppSpec == AppInit /\ [][AppNext]_vars

\* ------------------------------------------------------------ properties
\* sequence evs holds an event of type ty
Emits(evs, ty) == \E i \in DOMAIN evs : evs[i].type = ty

\* C1: a START taken while is_recording is TRUE is rejected: it opens no
\* stream, spawns no capture thread and leaves the running session's
\* streams, threads and flags as they are.
C1_StartWhileRecordingRejected ==
    [][\A a \in StartArgs :
          (is_recording /\ start_recording(a))
              => UNCHANGED <<is_recording, include_mic, raw_dump,
                             mic_stream, spk_stream, threads>>]_vars

\* C2: the final drain runs only after every capture thread has ended, and
\* no capture thread enqueues a block once the drain of its session has
\* run (the controller is back at get, or gone, with the flag cleared).
C2_DrainAfterEveryThread ==
    [][/\ StopFinish => Alive(threads) = 0
       /\ (Len(mic_queue') > Len(mic_queue) \/ Len(loop_queue') > Len(loop_queue))
              => (is_recording \/ ctl \in {"join", "join_exit"})]_vars

\* C3: in every reachable state both gains lie in [GAIN_MIN, GAIN_MAX],
\* i.e. in [0.0, 3.0].
C3_GainsInRange ==
    /\ GAIN_MIN <= mic_gain /\ mic_gain <= GAIN_MAX
    /\ GAIN_MIN <= loop_gain /\ loop_gain <= GAIN_MAX

\* C4: a read error of one stream during Recording is not fatal.  In a
\* step in which a blocking read ends without delivering a block while
\* is_recording is TRUE, exactly one ERROR event (naming that stream) is
\* put, that reader thread alone ends (every other thread is as before),
\* is_recording stays TRUE and both stream handles, the queues and the
\* controller are untouched; and is_recording is cleared only by the
\* controller taking STOP or EXIT.
C4_ReadErrorNotFatal ==
    [][/\ (is_recording /\ delivered' = delivered
                        /\ Reading(threads') < Reading(threads))
            => /\ \E t \in BagToSet(threads) :
                     /\ t.pc = "reading"
                     /\ threads' = Replace(threads, t, [t EXCEPT !.pc = "done"])
                     /\ emitted' = << Ev("ERROR", IF t.kind = "mic"
                                                  THEN "Mic read error"
                                                  ELSE "Loopback read error") >>
               /\ is_recording'
               /\ UNCHANGED <<ctl, mic_stream, spk_stream, mic_queue,
                              loop_queue>>
       /\ (is_recording /\ ~is_recording')
            => (ctl = "get" /\ ctl' \in {"join", "join_exit"})]_vars

\* C4, the case: the mic reader of a running session has just failed and
\* ended, the loopback reader is alive on its open stream.
C4_Witness ==
    /\ is_recording /\ spk_stream
    /\ emitted = << Ev("ERROR", "Mic read error") >>
    /\ \E t \in BagToSet(threads) : t.kind = "mic" /\ t.pc = "done"
    /\ \E t \in BagToSet(threads) : t.kind = "loop" /\ t.pc = "reading"

\* C5: with blocks from both streams, the mixed output is as long as the
\* longer of the two resampled streams (the shorter one padded).
C5_MixedLengthIsLonger ==
    [][(StopFinish /\ mic_queue # <<>> /\ loop_queue # <<>>)
          => \E i \in DOMAIN emitted' :
                /\ emitted'[i].type = "SAVE_FILE"
                /\ emitted'[i].data.frames =
                      Max(ResampleLen(Frames(mic_queue), capture_sr_mic, TARGET_SR),
                          ResampleLen(Frames(loop_queue), capture_sr_spk, TARGET_SR))]_vars

\* C6: a failing write of captured data to the output file by the loopback
\* reader during Recording is fatal: it clears the running flag and puts
\* an ERROR.
C6_WriteFailureFatal ==
    [][\A t \in BagToSet(threads) :
          (is_recording /\ LoopWriteError(t))
              => (~is_recording' /\ Emits(emitted', "ERROR"))]_vars

\* C7: a START that fails after validation puts an ERROR, leaves both
\* stream handles cleared, spawns no thread and returns with is_recording
\* FALSE.
C7_FailedStartLeavesNoSession ==
    [][\A a \in StartArgs :
          (StartLoopbackFail(a) \/ StartMicFail(a) \/ StartRawFail(a)
              \/ StartRawDirFail(a))
              => /\ Emits(emitted', "ERROR")
                 /\ ~mic_stream' /\ ~spk_stream'
                 /\ Alive(threads') <= Alive(threads)
                 /\ ~is_recording']_vars

\* C8 (as stated): a START with neither a loopback nor a speaker device
\* puts ERROR "Select an output or loopback device.", leaves is_recording
\* FALSE, opens no stream and spawns no thread.
C8_NoDeviceAsStated ==
    [][\A a \in StartArgs :
          (~is_recording /\ ~a.spk /\ ~a.lb /\ start_recording(a))
              => /\ emitted' # <<>>
                 /\ emitted'[1] = Ev("ERROR", "Select an output or loopback device.")
                 /\ ~is_recording'
                 /\ UNCHANGED <<mic_stream, spk_stream, threads>>]_vars

\* C8 (amended): a START with neither a loopback nor a speaker device puts
\* ERROR "Select an output or a loopback device." and then STATUS "Ready
\* to record", and leaves is_recording, both stream handles and the
\* threads as they were: taken while idle it leaves the controller idle,
\* with no stream opened and no thread spawned.
C8_NoDeviceRejected ==
    [][Take =>
          \A a \in StartArgs :
             (~a.spk /\ ~a.lb /\ start_recording(a))
                 => /\ emitted' = << Ev("ERROR", "Select an output or a loopback device."),
                                     Ev("STATUS", "Ready to record") >>
                    /\ UNCHANGED <<is_recording, include_mic, raw_dump,
                                   mic_stream, spk_stream, threads, mic_queue,
                                   loop_queue, mic_gain, loop_gain, ctl>>]_vars

\* C8, the case: the rejection has just been put, the controller is idle
\* with no stream and no thread.
C8_Witness ==
    /\ emitted = << Ev("ERROR", "Select an output or a loopback device."),
                    Ev("STATUS", "Ready to record") >>
    /\ ctl = "get" /\ ~is_recording
    /\ ~mic_stream /\ ~spk_stream
    /\ threads = EmptyBag

\* C9: a START that has a speaker or loopback device is rejected for a
\* missing microphone exactly when the microphone is part of the recording
\* (requested, and not forced off by raw mode) and no mic device is given.
C9_MicRejectedOnlyWhenRecorded ==
    [][\A a \in StartArgs :
          ((a.spk \/ a.lb) /\ start_recording(a))
              => ((emitted' = << Ev("ERROR", "Include microphone is enabled but no mic selected."),
                                 Ev("STATUS", "Ready to record") >>)
                     <=> (a.inc /\ ~a.raw /\ ~a.mic))]_vars

\* C10: a STOP that ends a session in which nothing was captured puts the
\* INFO "No audio captured. Nothing saved.", no ERROR and no SAVE_FILE,
\* and leaves the controller idle.
C10_EmptyCapture ==
    [][((StopFinish \/ StopFinishRaw) /\ delivered = 0)
          => /\ Emits(emitted', "INFO")
             /\ \A i \in DOMAIN emitted' :
                   /\ emitted'[i].type \in {"INFO", "STATUS"}
                   /\ emitted'[i].type = "INFO"
                         => emitted'[i].text = "No audio captured. Nothing saved."
             /\ ~is_recording']_vars

\* C11: a STOP taken while no session is running puts no event and
\* changes no controller state (flags, gains, streams, queues, threads).
C11_StopIdleNoOp ==
    [][(~is_recording /\ (StopIdle \/ StopBegin))
          => /\ emitted' = <<>>
             /\ UNCHANGED <<ctl, is_recording, include_mic, raw_dump, p,
                            mic_stream, spk_stream, threads, mic_queue,
                            loop_queue, capture_sr_mic, capture_sr_spk,
                            mic_gain, loop_gain, raw_wave,
                            raw_frames_written, raw_file>>]_vars

\* C11, the case: one command was taken, and it was a STOP before any
\* START (every other command puts an event, creates the PyAudio instance
\* or ends the loop).
C11_Witness ==
    /\ ncmd = 1 /\ ctl = "get" /\ emitted = <<>>
    /\ ~p /\ ~is_recording /\ threads = EmptyBag

\* C14: within one stream blocks are queued in capture order.  When a
\* reader queues the block it read from the stream the handle names, no
\* other reader of that kind still holds an earlier block of that stream.
C14_CaptureOrder ==
    [][\A t \in BagToSet(threads) :
          ((MicRead(t) \/ LoopRead(t)) /\ t.on = "cur")
              => ~\E u \in BagToSet(threads) :
                     /\ u.kind = t.kind /\ u.pc = "got" /\ u.on = "cur"
                     /\ u.blk < t.blk]_vars

\* C12: EXIT taken while recording clears the flag first; the controller
\* then does nothing but wait for the capture threads; once every one of
\* them has ended it drains both queues and emits, clears both handles
\* and terminates PyAudio, and the
\* loop ends.  EXIT taken while idle releases and ends at once.  After the
\* loop has ended no command is taken and no controller field changes.
C12_ExitSequence ==
    [][/\ (ctl = "get" /\ ctl' = "join_exit") => (is_recording /\ ~is_recording')
       /\ (ctl = "join_exit") => ctl' \in {"join_exit", "exited"}
       /\ (ctl = "join_exit" /\ ctl' = "exited")
             => /\ Alive(threads) = 0 /\ ~is_recording'
                /\ mic_queue' = <<>> /\ loop_queue' = <<>>
                /\ emitted' # <<>>
       /\ (ctl # "exited" /\ ctl' = "exited")
             => (~is_recording' /\ ~mic_stream' /\ ~spk_stream' /\ ~p')
       /\ (ctl = "exited")
             => UNCHANGED <<ctl, ncmd, is_recording, include_mic, raw_dump,
                            p, mic_stream, spk_stream, mic_gain, loop_gain>>]_vars

\* C13: commands are taken one at a time: a command is taken only when
\* the controller is back at get, i.e. the previous one has returned; while
\* stop_recording waits for its joins no command is taken and no flag or
\* gain is changed by another command.
C13_CommandsSerialized ==
    [][/\ (ncmd' # ncmd) => (ctl = "get" /\ ncmd' = ncmd + 1)
       /\ (ctl \in {"join", "join_exit"})
             => UNCHANGED <<ncmd, is_recording, include_mic, raw_dump,
                            mic_gain, loop_gain>>]_vars

\* C13, the case: a STOP is waiting in join for a read in flight while
\* the caller may still send commands.
C13_Witness ==
    /\ ctl = "join" /\ ncmd < MaxCmds
    /\ \E t \in BagToSet(threads) : t.ref /\ t.pc = "reading"

\* C15: with the flag cleared no reader enters another read, and if every
\* read returns a STOP taken during Recording ends with the controller
\* back at get, idle.
C15_StopTerminates ==
    /\ [][~is_recording => Reading(threads') <= Reading(threads)]_vars
    /\ ((ctl = "join") ~> (ctl = "get" /\ ~is_recording))

\* C15, the case: the flag is cleared while both readers of the session
\* are inside a read.
C15_Witness ==
    /\ ctl = "join" /\ ~is_recording
    /\ \E t \in BagToSet(threads) : t.ref /\ t.kind = "mic" /\ t.pc = "reading"
    /\ \E t \in BagToSet(threads) : t.ref /\ t.kind = "loop" /\ t.pc = "reading"

\* C16: the limiter never amplifies: its output has the length of its input,
\* no output sample is larger in magnitude than the input sample at the same
\* place, and an input whose peak is at or below the ceiling comes out as it
\* went in.
C16_NeverAmplifies ==
    mixed # NotMixed =>
        LET pre == PreLimit(mic_rs, loop_rs)
        IN  /\ DOMAIN mixed = DOMAIN pre
            /\ \A i \in DOMAIN pre : Abs(mixed[i]) <= Abs(pre[i])
            /\ Peak(pre) <= TARGET_PEAK => mixed = pre

\* the limiter has reduced a mix of both signals that was above the ceiling
C16_Witness ==
    /\ mic_rs # <<>>
    /\ loop_rs # <<>>
    /\ mixed # NotMixed
    /\ Peak(PreLimit(mic_rs, loop_rs)) > TARGET_PEAK
    /\ \E i \in DOMAIN mixed : Abs(mixed[i]) < Abs(PreLimit(mic_rs, loop_rs)[i])

\* C17: when the peak of what enters the limiter is above the ceiling, the
\* peak of what leaves it is the ceiling, whether the output is made from
\* both signals, from the microphone alone or from the loopback alone.
C17_PeakAtCeiling ==
    (mixed # NotMixed /\ Peak(PreLimit(mic_rs, loop_rs)) > TARGET_PEAK)
        => Peak(mixed) = TARGET_PEAK

\* Scenario B: 0.6 on the microphone plus 0.6 on the loopback, 1.2 before
\* the limiter and 0.98 after it
C17_Witness ==
    /\ mic_rs = <<600>>
    /\ loop_rs = <<600>>
    /\ Peak(PreLimit(mic_rs, loop_rs)) = 1200
    /\ mixed = <<TARGET_PEAK>>

\* C18: every LEVEL event carries the tag mic or sys and a peak between 0
\* and 1.
C18_LevelInUnitRange ==
    level # NoLevel =>
        /\ level.tag \in {"mic", "sys"}
        /\ 0 <= level.peak
        /\ level.peak <= FullScale

C20_LiveGain ==
    [][/\ \A a \in GainArgs :
             SetGains(a)
                => /\ mic_gain' = (IF a.mg = Absent
                                   THEN Max(GAIN_MIN, Min(GAIN_MAX, mic_gain))
                                   ELSE Max(GAIN_MIN, Min(GAIN_MAX, a.mg)))
                   /\ loop_gain' = (IF a.lg = Absent
                                    THEN Max(GAIN_MIN, Min(GAIN_MAX, loop_gain))
                                    ELSE Max(GAIN_MIN, Min(GAIN_MAX, a.lg)))
                   /\ UNCHANGED <<mic_queue, loop_queue, threads, is_recording>>
       /\ (mic_queue' # mic_queue)
             => \/ mic_queue' = <<>>
                \/ /\ Len(mic_queue') = Len(mic_queue) + 1
                   /\ SubSeq(mic_queue', 1, Len(mic_queue)) = mic_queue
                   /\ mic_queue'[Len(mic_queue')].g = mic_gain
       /\ (loop_queue' # loop_queue)
             => \/ loop_queue' = <<>>
                \/ /\ Len(loop_queue') = Len(loop_queue) + 1
                   /\ SubSeq(loop_queue', 1, Len(loop_queue)) = loop_queue
                   /\ loop_queue'[Len(loop_queue')].g = loop_gain]_vars

\* C20, the case: a session is running, the mic gain was lowered by
\* SET_GAINS between two mic blocks: the first keeps gain 1.0, the second
\* has the clamped new gain 0.0.
C20_Witness ==
    /\ is_recording /\ mic_gain = 0
    /\ Len(mic_queue) = 2
    /\ mic_queue[1].g = 100 /\ mic_queue[2].g = 0

\* C21: SET_GAINS changes no part of the lifecycle: it assigns the two gains
\* only, a gain the command does not name keeps the value it had, and the
\* running flag, the stream handles, the PyAudio instance, the capture
\* threads, both queues and the raw file are as before, recording or idle.
C21_SetGainsOnlyGains ==
    [][\A a \in GainArgs :
          SetGains(a)
             => /\ a.mg = Absent => mic_gain' = mic_gain
                /\ a.lg = Absent => loop_gain' = loop_gain
                /\ UNCHANGED <<ctl, is_recording, include_mic, raw_dump, p,
                               mic_stream, spk_stream, threads, mic_queue,
                               loop_queue, capture_sr_mic, capture_sr_spk,
                               raw_wave, raw_frames_written, raw_file>>]_vars

\* C22: LEVEL events of one tag are at least 0.1 s apart: when a LEVEL
\* event is put for a tag that had one before, at least 0.1 s have passed
\* since that one.
C22_LevelThrottled ==
    [][\A tag \in {"mic", "sys"} :
          (emitted' = << Ev("LEVEL", tag) >> /\ level_at[tag] # Never)
             => now - level_at[tag] >= LevelPeriod]_vars

\* C23: format negotiation returns the first accepted combination when the
\* rates are probed target rate first, then the fallback list, each with
\* the channel counts requested, 2, 1; it fails exactly when the device
\* accepts none of these.
C23_TargetRateFirst ==
    (call.fn = "open" /\ ret # <<>>) =>
        LET srs == <<TARGET_SR>> \o SR_CANDIDATES
            chs == <<Max(1, Min(call.dev.maxInputChannels, 2)), 2, 1>>
            ok(i, j) == <<srs[i], chs[j]>> \in call.dev.accepts
            first(i, j) == /\ ok(i, j)
                           /\ \A m \in DOMAIN srs, n \in DOMAIN chs :
                                 ok(m, n) => (m > i \/ (m = i /\ n >= j))
        IN  IF \E i \in DOMAIN srs, j \in DOMAIN chs : ok(i, j)
            THEN /\ ret[1].ok
                 /\ \E i \in DOMAIN srs, j \in DOMAIN chs :
                       first(i, j) /\ ret[1].sr = srs[i] /\ ret[1].ch = chs[j]
            ELSE ~ret[1].ok

\* C24: with no loopback device given, the loopback chosen is one whose name
\* starts with the speaker's name if there is one, else one whose name
\* contains the speaker's name or is contained in it if there is one, else
\* the first loopback; with no loopback at all START reports an error and
\* no session runs.
C24_LoopbackResolution ==
    (call.fn = "resolve" /\ ret # <<>>) =>
        LET lbs == call.loopbacks
            all == {lbs[i] : i \in DOMAIN lbs}
            P(n) == call.base # <<>> /\ StartsWith(n, call.base)
            S(n) == call.base # <<>> /\ (\/ Contains(n, call.base)
                                         \/ Contains(call.base, n))
        IN  IF lbs = <<>>
            THEN /\ ~ret[1].ok
                 /\ Emits(emitted, "ERROR")
                 /\ ~is_recording /\ ~spk_stream /\ threads = EmptyBag
            ELSE /\ ret[1].ok
                 /\ ret[1].name \in all
                 /\ (\E n \in all : P(n)) => P(ret[1].name)
                 /\ (\E n \in all : S(n)) => S(ret[1].name)
                 /\ (\A n \in all : ~S(n)) => ret[1].name = lbs[1]

\* the first loopback matches the speaker's name only as a substring, the
\* second starts with it: the second is chosen
C24_Witness ==
    /\ call.fn = "resolve"
    /\ call.base = <<"a">>
    /\ call.loopbacks = << <<"b", "a">>, <<"a", "b">> >>
    /\ ret # <<>>
    /\ ret[1].name = <<"a", "b">>

\* C25: the mixed output has the loopback stream's channel count.
C25_OutputChannelsAreLoopbacks ==
    (call.fn = "mix" /\ ret # <<>>) => ret[1].cols = call.loop.cols

C30_ResampleIdentity ==
    (call.fn = "resample_to" /\ ret # <<>> /\ call.src_sr = call.dst_sr)
        => /\ ret[1] = call.x
           /\ Len(ret[1].rows) = Len(call.x.rows)
           /\ ret[1].cols = call.x.cols

\* a two-channel block of MaxLen frames resampled from 44100 to 44100
C30_Witness ==
    /\ call.fn = "resample_to"
    /\ call.src_sr = 44100 /\ call.dst_sr = 44100
    /\ call.x.cols = 2 /\ Len(call.x.rows) = MaxLen
    /\ ret = << call.x >>

\* C27: the output is written only while the session runs or during the
\* final flush of a stop: a block is written to the raw file only while the
\* file is open and the session is recording or being stopped, and a
\* SAVE_FILE payload is put only by the step that ends a stop.
C27_SinkWrittenOnlyInSession ==
    [][/\ (raw_file' # raw_file /\ raw_file' # <<>>)
             => /\ raw_wave
                /\ is_recording \/ ctl \in {"join", "join_exit"}
       /\ Emits(emitted', "SAVE_FILE")
             => /\ ctl \in {"join", "join_exit"}
                /\ ctl' \in {"get", "exited"}
                /\ ~is_recording]_vars

\* C28: while a session records, a processing task keeps draining: no
\* capture queue grows during the session, and both are empty when the stop
\* begins.
C28_QueuesDrainedWhileRecording ==
    [][/\ (is_recording /\ is_recording')
             => /\ Len(mic_queue') <= Len(mic_queue)
                /\ Len(loop_queue') <= Len(loop_queue)
       /\ (is_recording /\ ~is_recording')
             => mic_queue = <<>> /\ loop_queue = <<>>]_vars

C31_SoftLimiterNeverBoosts ==
    mixed_bak0 # NotMixed =>
        LET pre == BakMix(mic_np, loopback_np)
        IN  /\ DOMAIN mixed_bak0 = DOMAIN pre
            /\ \A i \in DOMAIN pre : Abs(mixed_bak0[i]) <= Abs(pre[i])
            /\ Cardinality(limiters) <= 1

\* C32: no capture thread reads from a stream that has been closed: a thread
\* inside a blocking read is never on a stream that _teardown closed.
C32_NoReadOnClosedStream ==
    \A t \in BagToSet(threads) : t.pc = "reading" => t.on # "closed"

\* C34: a STATUS event whose text begins with Recording is put only while a
\* session is running (is_recording TRUE once the step is done); no command
\* taken while the controller is idle, SET_GAINS included, reports recording.
C34_RecordingStatusOnlyInSession ==
    [][(\E i \in DOMAIN emitted' :
            emitted'[i] = Ev("STATUS", "Recording")) => is_recording']_vars

\* C35: sessions are isolated: both capture queues are empty whenever a
\* START succeeds, and a block is queued only during a session or while its
\* STOP waits for the readers, never after the final drain.
C35_SessionsIsolated ==
    [][/\ (\E a \in StartArgs : StartOk(a))
            => (mic_queue = <<>> /\ loop_queue = <<>>)
       /\ (Len(mic_queue') > Len(mic_queue)
            \/ Len(loop_queue') > Len(loop_queue))
            => (is_recording \/ ctl \in {"join", "join_exit"})]_vars

\* the number of SAVE_FILE events in sequence evs
SaveFiles(evs) == Cardinality({i \in DOMAIN evs : evs[i].type = "SAVE_FILE"})

\* the number of Info "No audio captured. Nothing saved." events in evs
NothingSaved(evs) ==
    Cardinality({i \in DOMAIN evs :
                    evs[i] = Ev("INFO", "No audio captured. Nothing saved.")})

\* some reader holds a block it has read and not yet recorded
BlockHeld == \E t \in BagToSet(threads) : t.pc = "got"

\* C36: a STOP of a normal-mode session ends in exactly one terminal event,
\* one SAVE_FILE or one Info "No audio captured. Nothing saved.", and it is
\* SAVE_FILE if and only if at least one block was captured.
C36_OneTerminalOutcome ==
    [][StopFinish =>
        /\ SaveFiles(emitted') + NothingSaved(emitted') = 1
        /\ SaveFiles(emitted') = 1
            <=> (mic_queue # <<>> \/ loop_queue # <<>> \/ BlockHeld)]_vars

\* C37: whenever the controller waits for its next command with
\* is_recording FALSE, no capture stream is open and no capture thread is
\* alive.
C37_IdleHoldsNothing ==
    (ctl = "get" /\ ~is_recording) =>
        /\ ~mic_stream
        /\ ~spk_stream
        /\ Alive(threads) = 0

\* C38: raw dump mode does no processing: a START in raw mode forces the
\* microphone off (no mic stream opened, no mic thread started), the blocks
\* are written to the raw file in the order they were read, nothing is
\* queued while the mode is on, and the STOP closes the file and puts no
\* SAVE_FILE.
C38_RawDumpNoProcessing ==
    [][/\ \A a \in StartArgs : (StartOk(a) /\ a.raw) =>
            /\ ~include_mic'
            /\ mic_stream' = mic_stream
            /\ \A t \in BagToSet(threads') : t.ref => t.kind = "loop"
       /\ raw_dump =>
            /\ Len(mic_queue') <= Len(mic_queue)
            /\ Len(loop_queue') <= Len(loop_queue)
       /\ \A i, j \in DOMAIN raw_file' : i < j => raw_file'[i] < raw_file'[j]
       /\ StopFinishRaw => (~raw_wave' /\ SaveFiles(emitted') = 0)]_vars

\* C39: the saved audio is never hard-clipped: whether the output is made
\* from both signals, from the microphone alone or from the loopback alone,
\* every int16 sample of the SAVE_FILE payload has magnitude at most
\* 0.98 * 32767, and the clip to [-1, 1] in to_int16 alters no sample.
C39_NeverHardClipped ==
    mixed # NotMixed =>
        /\ DOMAIN mixed_i16 = DOMAIN mixed
        /\ \A i \in DOMAIN mixed_i16 :
               Abs(mixed_i16[i]) * 1000 <= TARGET_PEAK * 32767
        /\ clip_unit(mixed) = mixed

\* a mix of both signals that peaked above full scale has been limited and
\* converted
C39_Witness ==
    /\ mic_rs # <<>>
    /\ loop_rs # <<>>
    /\ Peak(PreLimit(mic_rs, loop_rs)) > 1000
    /\ mixed # NotMixed
    /\ Peak(mixed_i16) = 32111

\* C33 as stated: whenever the GUI has processed every event put so far,
\* the Stop button is enabled if the controller is recording and the Start
\* button is enabled only if it is not.
C33_ButtonsFollowController ==
    (status_queue = <<>> /\ stack = <<>>) =>
        /\ is_recording => stop_btn
        /\ start_btn => ~is_recording

\* C40: at most one process_status callback is pending, process_status is
\* not entered again while it is under way (no poll is pending while a
\* dialog it opened is showing), and whenever the GUI thread is back in
\* mainloop exactly one poll is pending.
C40_OnePollPending ==
    /\ timers <= 1
    /\ Cardinality({i \in DOMAIN stack : stack[i].fn = "process_status"}) <= 1
    /\ (stack # <<>> /\ Top.fn = "process_status" /\ Top.pc \in DialogPcs)
            => timers = 0
    /\ stack = <<>> => (timers = 1 /\ poll_after_id)

\* process_status shows the second box of a SAVE_FILE, after the file
\* dialog of the same call
C40_Witness ==
    /\ stack # <<>>
    /\ Top.fn = "process_status"
    /\ Top.pc = "save2"

====
